---- MODULE Spec2Model ----
(***************************************************************************)
(* Semantic-cache-backed knowledge-graph lookup layer of sye-agent:        *)
(* Neo4jKnowledgeGraphTool (neo4j_tool.py) over Neo4jSemanticCache         *)
(* (semantic_cache.py) and the Neo4j helpers of neo4j_utils.py.            *)
(*                                                                         *)
(* Distances are in hundredths (0.2 is 20).  Node ids, relationship ids    *)
(* and timestamps are the store's counters; run ids are the number of the  *)
(* uuid4 drawn.                                                            *)
(***************************************************************************)
EXTENDS Integers, Sequences, FiniteSets, TLC

\* ------------------------------------------------------------------------
\* Bounds
\* ------------------------------------------------------------------------
\* number of write_graph calls explored
MaxWrites == 2

\* ... while the backing services fail and recover
MaxFaultWrites == 1

\* number of steps of the CLI's agent run explored (the run allows max_steps)
MaxSteps == 3

\* ------------------------------------------------------------------------
\* Values
\* ------------------------------------------------------------------------
\* Python None / Cypher null
Null == -1

Labels == {"Symptom", "Action"}

\* entity texts; three paraphrases of one symptom
Names == {"db timeout", "db time out", "db timed out"}

\* get_semantic_cache(): Neo4jSemanticCache(distance_threshold=0.2)
DistanceThreshold == 20

\* distance that the "<label>:" prefix alone puts between two composite keys
\* of identical text: the code fixes no value, both sides of the threshold occur
LabelGaps == {1, 30}

VARIABLES
  nodes,       \* Graph Store: sequence of nodes, node with id i at index i+1
  rels,        \* Graph Store: sequence of relationships
  runCount,    \* number of run ids drawn so far
  cache,       \* Semantic Cache: composite key -> stored response
  cacheState,  \* "up", "readonly" (check works, store raises) or "down"
  graphUp,     \* Graph Store reachable
  labelGap,    \* embedding geometry, fixed for the behaviour
  okRuns,      \* run ids of the write_graph calls that returned success
  answered,    \* key -> nodes query_existing last returned for it since the last write_graph
  settled,     \* the same, since the last write_graph or cache store under another key
  writers,     \* the write_graph calls in progress, one per calling process
  cli,         \* the interactive CLI's agent run: the step at hand and the user's answers
  last         \* the latest call and what it returned

vars == <<nodes, rels, runCount, cache, cacheState, graphUp, labelGap, okRuns,
          answered, settled, writers, cli, last>>

\* ------------------------------------------------------------------------
\* Embedding Provider and composite keys
\* ------------------------------------------------------------------------
\* f"{node_label}:{query_text}"
CacheKey(query_text, node_label) == <<node_label, query_text>>

Keys == {CacheKey(n, l) : n \in Names, l \in Labels}

\* position of a text on the paraphrase axis of the embedding space
Pos(text) ==
  CASE text = "db timeout"   -> 0
    [] text = "db time out"  -> 20
    [] text = "db timed out" -> 35

Abs(x) == IF x < 0 THEN -x ELSE x

\* vector distance between the embeddings of two composite keys
Dist(k1, k2, gap) ==
  Abs(Pos(k1[2]) - Pos(k2[2])) + (IF k1[1] = k2[1] THEN 0 ELSE gap)

\* ------------------------------------------------------------------------
\* Serialisation of a node list (json.dumps / json.loads)
\* ------------------------------------------------------------------------
Summary(node_id, name, created_at, times_seen) ==
  [node_id |-> node_id, name |-> name, created_at |-> created_at,
   times_seen |-> times_seen]

\* Dumps that drops the times_seen of every node
DumpsWithoutTimesSeen(ns) ==
  [valid |-> TRUE,
   items |-> [i \in 1..Len(ns) |->
                <<ns[i].node_id, ns[i].name, ns[i].created_at, Null>>]]

Dumps(ns) ==
  [valid |-> TRUE,
   items |-> [i \in 1..Len(ns) |->
                <<ns[i].node_id, ns[i].name, ns[i].created_at, ns[i].times_seen>>]]

\* a response that json.loads rejects
CorruptResponse == [valid |-> FALSE, items |-> <<>>]

\* Loads that returns what it could read of a response it cannot parse
LoadsLenient(response) ==
  [ok |-> TRUE,
   value |-> [i \in 1..Len(response.items) |->
                Summary(response.items[i][1], response.items[i][2],
                        response.items[i][3], response.items[i][4])]]

Loads(response) ==
  IF response.valid
  THEN [ok |-> TRUE,
        value |-> [i \in 1..Len(response.items) |->
                     Summary(response.items[i][1], response.items[i][2],
                             response.items[i][3], response.items[i][4])]]
  ELSE [ok |-> FALSE, value |-> <<>>]

\* ------------------------------------------------------------------------
\* Semantic Cache
\* ------------------------------------------------------------------------
\* WithinThreshold with the comparison made strict
WithinThresholdStrict(c, key, gap) ==
  {k \in DOMAIN c : Dist(k, key, gap) < DistanceThreshold}

\* SemanticCache.check(prompt): the stored keys within the threshold
WithinThreshold(c, key, gap) ==
  {k \in DOMAIN c : Dist(k, key, gap) <= DistanceThreshold}

\* ... of which the nearest is returned first
Nearest(c, key, gap) ==
  LET within == WithinThreshold(c, key, gap)
  IN {k \in within : \A j \in within : Dist(k, key, gap) <= Dist(j, key, gap)}

NoneResult == [none |-> TRUE, value |-> <<>>]

\* Neo4jSemanticCache.check, given the match k the index returned
CheckWith(c, k) ==
  LET parsed == Loads(c[k])
  IN IF parsed.ok THEN [none |-> FALSE, value |-> parsed.value] ELSE NoneResult

\* the results Neo4jSemanticCache.check(query_text, node_label) can return
Check(c, query_text, node_label, gap) ==
  LET key == CacheKey(query_text, node_label)
      near == Nearest(c, key, gap)
  IN IF near = {}
     THEN {NoneResult}
     ELSE {CheckWith(c, k) : k \in near}

\* Store that adds the nodes to the list already under the key
StoreMerged(c, query_text, ns, node_label) ==
  LET key == CacheKey(query_text, node_label)
  IN [k \in DOMAIN c \cup {key} |->
        IF k # key THEN c[k]
        ELSE IF key \in DOMAIN c THEN Dumps(Loads(c[key]).value \o ns) ELSE Dumps(ns)]

\* Store that overwrites the nearest entry within the threshold, when there is
\* one, instead of the entry of the exact key
StoreOverNearest(c, query_text, ns, node_label) ==
  LET key == CacheKey(query_text, node_label)
      near == Nearest(c, key, labelGap)
      at == IF near = {} THEN key ELSE CHOOSE k \in near : TRUE
  IN [k \in DOMAIN c \cup {at} |-> IF k = at THEN Dumps(ns) ELSE c[k]]

\* Store that writes nothing
StoreDropped(c, query_text, ns, node_label) == c

\* Neo4jSemanticCache.store: insert or overwrite the entry of the exact key
Store(c, query_text, ns, node_label) ==
  LET key == CacheKey(query_text, node_label)
  IN [k \in DOMAIN c \cup {key} |-> IF k = key THEN Dumps(ns) ELSE c[k]]

\* ------------------------------------------------------------------------
\* Graph Store
\* ------------------------------------------------------------------------
\* properties of a payload node; "" and Null stand for an absent property
Props(name, times_seen, source, run_id) ==
  [name |-> name, times_seen |-> times_seen, source |-> source, run_id |-> run_id]

\* timestamp(): the store's clock, one tick per write transaction
Timestamp(ns, rs) == Len(ns) + Len(rs)

\* CreateNode as a MERGE on (label, name): an existing node is reused
CreateNodeMerged(ns, rs, label, properties, run_id) ==
  IF \E i \in 1..Len(ns) : ns[i].label = label /\ ns[i].name = properties.name
  THEN ns
  ELSE Append(ns,
         [id |-> Len(ns), label |-> label, name |-> properties.name,
          times_seen |-> properties.times_seen, created_at |-> Len(ns) + Len(rs),
          source |-> "agent", run_id |-> run_id])

\* CreateNode that sets the three stamps first and merges the payload's
\* properties over them
CreateNodeStampsFirst(ns, rs, label, properties, run_id) ==
  Append(ns,
    [id |-> Len(ns), label |-> label, name |-> properties.name,
     times_seen |-> properties.times_seen, created_at |-> Timestamp(ns, rs),
     source |-> IF properties.source # "" THEN properties.source ELSE "agent",
     run_id |-> IF properties.run_id # Null THEN properties.run_id ELSE run_id])

\* create_node: CREATE (n:label) SET n += $properties, then the three stamps;
\* the new node's id is returned
CreateNode(ns, rs, label, properties, run_id) ==
  Append(ns,
    [[id |-> Len(ns), label |-> label, name |-> properties.name,
      times_seen |-> properties.times_seen, created_at |-> Null,
      source |-> properties.source, run_id |-> properties.run_id]
       EXCEPT !.created_at = Timestamp(ns, rs),
              !.source = "agent",
              !.run_id = run_id])

NodeIds(ns) == {ns[i].id : i \in 1..Len(ns)}

\* CreateRelationship that reports success without creating anything
CreateRelationshipUnmatched(ns, rs, rel_type, start_node_id, end_node_id, run_id) ==
  [ok |-> TRUE, rels |-> rs]

\* create_relationship: MATCH both endpoints by id, CREATE the relationship;
\* result[0] raises when the MATCH found nothing
CreateRelationship(ns, rs, rel_type, start_node_id, end_node_id, run_id) ==
  IF start_node_id \in NodeIds(ns) /\ end_node_id \in NodeIds(ns)
  THEN [ok |-> TRUE,
        rels |-> Append(rs, [id |-> Len(rs), type |-> rel_type,
                             start |-> start_node_id, end |-> end_node_id,
                             created_at |-> Timestamp(ns, rs), run_id |-> run_id])]
  ELSE [ok |-> FALSE, rels |-> rs]

\* the first loop of write_knowledge_graph from payload node i on
RECURSIVE CreateNodes(_, _, _, _, _, _)
CreateNodes(ns, rs, pnodes, i, id_mapping, run_id) ==
  IF i > Len(pnodes)
  THEN [nodes |-> ns, id_mapping |-> id_mapping]
  ELSE CreateNodes(CreateNode(ns, rs, pnodes[i].label, pnodes[i].properties, run_id),
                   rs, pnodes, i + 1,
                   [a \in DOMAIN id_mapping \cup {pnodes[i].id} |->
                      IF a = pnodes[i].id THEN Len(ns) ELSE id_mapping[a]],
                   run_id)

\* the second loop from payload relationship i on; id_mapping[...] raises
\* KeyError for a logical id no node of the payload carried
RECURSIVE CreateRelationships(_, _, _, _, _, _)
CreateRelationships(ns, rs, prels, i, id_mapping, run_id) ==
  IF i > Len(prels)
  THEN [ok |-> TRUE, rels |-> rs]
  ELSE IF prels[i].start_node_id \notin DOMAIN id_mapping
          \/ prels[i].end_node_id \notin DOMAIN id_mapping
       THEN [ok |-> FALSE, rels |-> rs]
       ELSE LET made == CreateRelationship(ns, rs, prels[i].type,
                                           id_mapping[prels[i].start_node_id],
                                           id_mapping[prels[i].end_node_id], run_id)
            IN IF made.ok
               THEN CreateRelationships(ns, made.rels, prels, i + 1, id_mapping, run_id)
               ELSE [ok |-> FALSE, rels |-> rs]

EmptyMapping == [a \in {} |-> 0]

\* write_knowledge_graph(conn, graph_json) with the run id drawn for it
WriteKnowledgeGraph(ns, rs, graph_json, run_id) ==
  LET created == CreateNodes(ns, rs, graph_json.nodes, 1, EmptyMapping, run_id)
      linked  == CreateRelationships(created.nodes, rs, graph_json.relationships, 1,
                                     created.id_mapping, run_id)
  IN [ok |-> linked.ok, nodes |-> created.nodes, rels |-> linked.rels,
      num_nodes |-> Len(graph_json.nodes),
      num_rels |-> Len(graph_json.relationships)]

\* ExistingRows that matches every name within the cache's distance threshold
\* of the query text
ExistingRowsFuzzy(ns, name, label) ==
  LET matches == {i \in 1..Len(ns) : /\ ns[i].label = label
                                      /\ Abs(Pos(ns[i].name) - Pos(name)) <= DistanceThreshold}
  IN IF matches = {}
     THEN {<<>>}
     ELSE {<<Summary(ns[i].id, ns[i].name, ns[i].created_at, ns[i].times_seen)>> :
             i \in matches}

\* the row sets MATCH (n:label) WHERE n.name = $name ... LIMIT 1 can return,
\* formatted as _query_existing formats them: Cypher fixes no order
ExistingRows(ns, name, label) ==
  LET matches == {i \in 1..Len(ns) : ns[i].label = label /\ ns[i].name = name}
  IN IF matches = {}
     THEN {<<>>}
     ELSE {<<Summary(ns[i].id, ns[i].name, ns[i].created_at, ns[i].times_seen)>> :
             i \in matches}

\* ------------------------------------------------------------------------
\* Payloads submitted to write_graph
\* ------------------------------------------------------------------------
PayloadFix ==
  [nodes |-> << [id |-> "n0", label |-> "Symptom",
                 properties |-> Props("db timeout", Null, "", Null)],
                [id |-> "n1", label |-> "Action",
                 properties |-> Props("db timeout", Null, "manual", 77)] >>,
   relationships |-> << [type |-> "FIXES", start_node_id |-> "n1",
                         end_node_id |-> "n0"] >>]

PayloadOne ==
  [nodes |-> << [id |-> "n0", label |-> "Symptom",
                 properties |-> Props("db time out", 5, "", Null)] >>,
   relationships |-> << >>]

\* its relationship names a logical id that no node of the payload carries
PayloadBad ==
  [nodes |-> << [id |-> "n0", label |-> "Symptom",
                 properties |-> Props("db timed out", 1, "", Null)] >>,
   relationships |-> << [type |-> "RELATES", start_node_id |-> "n0",
                         end_node_id |-> "n9"] >>]

Payloads == {PayloadFix, PayloadOne, PayloadBad}

\* two Symptom nodes that share a name and differ in times_seen, and a third
\* that shares its name with the Symptom of PayloadFix
PayloadTwins ==
  [nodes |-> << [id |-> "n0", label |-> "Symptom",
                 properties |-> Props("db time out", 5, "", Null)],
                [id |-> "n1", label |-> "Symptom",
                 properties |-> Props("db time out", 1, "", Null)],
                [id |-> "n2", label |-> "Symptom",
                 properties |-> Props("db timeout", 1, "", Null)] >>,
   relationships |-> << >>]

\* the graph contents the Warmup Job is run on
WarmupPayloads == {PayloadTwins, PayloadFix}

\* two nodes under the logical id "n0"
PayloadDup ==
  [nodes |-> << [id |-> "n0", label |-> "Symptom",
                 properties |-> Props("db timeout", Null, "", Null)],
                [id |-> "n1", label |-> "Action",
                 properties |-> Props("db timeout", Null, "", Null)],
                [id |-> "n0", label |-> "Symptom",
                 properties |-> Props("db time out", Null, "", Null)] >>,
   relationships |-> << [type |-> "FIXES", start_node_id |-> "n1",
                         end_node_id |-> "n0"] >>]

\* its relationship names "n1", a logical id that other payloads carry and
\* this one does not
PayloadLate ==
  [nodes |-> << [id |-> "n2", label |-> "Symptom",
                 properties |-> Props("db timed out", 1, "", Null)] >>,
   relationships |-> << [type |-> "RELATES", start_node_id |-> "n2",
                         end_node_id |-> "n1"] >>]

LogicalIds(graph_json) ==
  {graph_json.nodes[i].id : i \in 1..Len(graph_json.nodes)}

Malformed(graph_json) ==
  \E i \in 1..Len(graph_json.relationships) :
     graph_json.relationships[i].start_node_id \notin LogicalIds(graph_json)
     \/ graph_json.relationships[i].end_node_id \notin LogicalIds(graph_json)

\* the `data` argument of forward: a JSON object as its members were submitted
TextFix ==
  << <<"nodes", PayloadFix.nodes>>, <<"relationships", PayloadFix.relationships>> >>

TextFixRelsFirst ==
  << <<"relationships", PayloadFix.relationships>>, <<"nodes", PayloadFix.nodes>> >>

\* no "relationships" member at all
TextOne == << <<"nodes", PayloadOne.nodes>> >>

TextBad ==
  << <<"relationships", PayloadBad.relationships>>, <<"nodes", PayloadBad.nodes>> >>

TextDup ==
  << <<"nodes", PayloadDup.nodes>>, <<"relationships", PayloadDup.relationships>> >>

TextLate ==
  << <<"nodes", PayloadLate.nodes>>, <<"relationships", PayloadLate.relationships>> >>

PayloadTexts == {TextFix, TextFixRelsFirst, TextOne, TextBad}

\* dict.get(key, default) on the parsed object
Get(data, key, default) ==
  IF \E m \in 1..Len(data) : data[m][1] = key
  THEN data[CHOOSE m \in 1..Len(data) : data[m][1] = key][2]
  ELSE default

\* json.loads(data), read as write_knowledge_graph reads it:
\* graph_json.get("nodes", []) and graph_json.get("relationships", [])
DataDict(data) ==
  [nodes |-> Get(data, "nodes", <<>>),
   relationships |-> Get(data, "relationships", <<>>)]

\* ------------------------------------------------------------------------
\* What a tool call returns (the JSON string of forward) and what it leaves
\* ------------------------------------------------------------------------
NoReturn ==
  [ok |-> FALSE, error |-> "", source |-> "", nodes |-> <<>>, count |-> 0,
   nodes_created |-> 0, relationships_created |-> 0, run_id |-> 0,
   total_nodes |-> 0, total_relationships |-> 0, nodes_by_label |-> {},
   queriedGraph |-> FALSE, raised |-> FALSE]

\* forward's except branch: json.dumps({"error": str(e)})
Failed(error) == [NoReturn EXCEPT !.error = error]

\* json.dumps({"source": ..., "nodes": ..., "count": len(nodes)})
Found(source, ns) ==
  [NoReturn EXCEPT !.ok = TRUE, !.source = source, !.nodes = ns, !.count = Len(ns),
                   !.queriedGraph = (source = "neo4j")]

\* `if cached_nodes:` -- None and the empty list are both falsy
Truthy(cached) == ~cached.none /\ Len(cached.value) > 0

\* QueryGraph that answers "no nodes" when the Graph Store cannot be reached
QueryGraphEmptyOnError(c, ns, cstate, gup, name, label) ==
  IF ~gup
  THEN {[cache |-> c, ret |-> Found("neo4j", <<>>)]}
  ELSE IF cstate = "readonly"
       THEN {[cache |-> c, ret |-> [Failed("cache") EXCEPT !.queriedGraph = TRUE]]}
       ELSE {[cache |-> Store(c, name, rows, label), ret |-> Found("neo4j", rows)] :
               rows \in ExistingRows(ns, name, label)}

\* _query_existing after a falsy cache.check: the graph query, then cache.store
QueryGraph(c, ns, cstate, gup, name, label) ==
  IF ~gup
  THEN \* execute_query raises
       {[cache |-> c, ret |-> Failed("neo4j")]}
  ELSE IF cstate = "readonly"
       THEN \* cache.store raises after the graph was read
            {[cache |-> c, ret |-> [Failed("cache") EXCEPT !.queriedGraph = TRUE]]}
       ELSE {[cache |-> Store(c, name, rows, label), ret |-> Found("neo4j", rows)] :
               rows \in ExistingRows(ns, name, label)}

\* forward("query_existing", {"name": name, "label": label}), both present:
\* every (cache left behind, value returned) the call can end with
QueryExistingOutcomes(c, ns, cstate, gup, gap, name, label) ==
  IF cstate = "down"
  THEN \* cache.check raises; forward catches it
       {[cache |-> c, ret |-> Failed("cache")]}
  ELSE UNION {IF Truthy(cached)
              THEN {[cache |-> c, ret |-> Found("cache", cached.value)]}
              ELSE QueryGraph(c, ns, cstate, gup, name, label) :
                cached \in Check(c, name, label, gap)}

\* a "label" that closes the node pattern and goes on with clauses of its own
RenameLabel == "Symptom) SET n.name = 'db timed out' WITH 1 AS x MATCH (n"

\* the Cypher statement that the f-string of _query_existing,
\*   MATCH (n:{label}) WHERE n.name = $name RETURN ... LIMIT 1,
\* is for a label: with RenameLabel it reads
\*   MATCH (n:Symptom) SET n.name = 'db timed out' WITH 1 AS x
\*   MATCH (n) WHERE n.name = $name RETURN ... LIMIT 1
Statement(label) ==
  IF label = RenameLabel
  THEN [first_match |-> "Symptom", set_name |-> "db timed out", rematch |-> TRUE]
  ELSE [first_match |-> label, set_name |-> "", rematch |-> FALSE]

\* execute_query: session.run in an auto-commit transaction, which carries out
\* whatever clauses the statement holds; the graph left behind and the row
\* lists that can come back
ExecuteQuery(ns, statement, name) ==
  LET first == {i \in 1..Len(ns) : ns[i].label = statement.first_match}
      after == IF statement.set_name # ""
               THEN [i \in 1..Len(ns) |->
                       IF i \in first THEN [ns[i] EXCEPT !.name = statement.set_name]
                       ELSE ns[i]]
               ELSE ns
      matches == IF statement.rematch
                 THEN IF first = {} THEN {}
                      ELSE {i \in 1..Len(after) : after[i].name = name}
                 ELSE {i \in first : after[i].name = name}
  IN [nodes |-> after,
      rows |-> IF matches = {}
               THEN {<<>>}
               ELSE {<<Summary(after[i].id, after[i].name, after[i].created_at,
                               after[i].times_seen)>> : i \in matches}]

\* forward("query_existing", {"name": name, "label": label}) for any label
\* text: every (cache, graph nodes, value returned) the call can end with
QueryExistingTextOutcomes(c, ns, cstate, gup, gap, name, label) ==
  IF cstate = "down"
  THEN {[cache |-> c, nodes |-> ns, ret |-> Failed("cache")]}
  ELSE UNION {IF Truthy(cached)
              THEN {[cache |-> c, nodes |-> ns, ret |-> Found("cache", cached.value)]}
              ELSE IF ~gup
                   THEN {[cache |-> c, nodes |-> ns, ret |-> Failed("neo4j")]}
                   ELSE LET run == ExecuteQuery(ns, Statement(label), name)
                        IN {[cache |-> Store(c, name, rows, label), nodes |-> run.nodes,
                             ret |-> Found("neo4j", rows)] : rows \in run.rows} :
                cached \in Check(c, name, label, gap)}

\* forward("write_graph", graph_json): the graph left behind and the value returned
WriteGraphOutcome(ns, rs, gup, graph_json, run_id) ==
  LET written == WriteKnowledgeGraph(ns, rs, graph_json, run_id)
  IN IF ~gup
     THEN \* the first write transaction raises
          [nodes |-> ns, rels |-> rs, ret |-> [Failed("neo4j") EXCEPT !.run_id = run_id]]
     ELSE [nodes |-> written.nodes, rels |-> written.rels,
           ret |-> IF written.ok
                   THEN [NoReturn EXCEPT !.ok = TRUE,
                                         !.nodes_created = written.num_nodes,
                                         !.relationships_created = written.num_rels,
                                         !.run_id = run_id]
                   ELSE [Failed("KeyError") EXCEPT !.run_id = run_id]]

\* MATCH (n) RETURN labels(n)[0] as label, count(n) as count
CountByLabel(ns) ==
  {<<l, Cardinality({i \in 1..Len(ns) : ns[i].label = l})>> :
     l \in {ns[i].label : i \in 1..Len(ns)}}

\* sum(r["count"] for r in results)
RECURSIVE SumCounts(_)
SumCounts(results) ==
  IF results = {}
  THEN 0
  ELSE LET r == CHOOSE x \in results : TRUE
       IN r[2] + SumCounts(results \ {r})

\* GetStatsOutcome that totals the Symptom nodes only
GetStatsOutcomeSymptoms(ns, rs, gup) ==
  IF gup
  THEN [NoReturn EXCEPT !.ok = TRUE,
                        !.total_nodes = SumCounts({r \in CountByLabel(ns) : r[1] = "Symptom"}),
                        !.total_relationships = Len(rs),
                        !.nodes_by_label = CountByLabel(ns)]
  ELSE Failed("neo4j")

\* forward("get_stats")
GetStatsOutcome(ns, rs, gup) ==
  IF gup
  THEN [NoReturn EXCEPT !.ok = TRUE,
                        !.total_nodes = SumCounts(CountByLabel(ns)),
                        !.total_relationships = Len(rs),
                        !.nodes_by_label = CountByLabel(ns)]
  ELSE Failed("neo4j")

\* ------------------------------------------------------------------------
\* forward(operation, data) for any operation string and any data value
\* ------------------------------------------------------------------------
Operations == {"write_graph", "query_existing", "get_stats", "delete_all"}

\* the data values submitted, by what they are.
\* kind: a str that json.loads rejects, a str holding a JSON list, or a str
\* holding a JSON object with the members given
DataNamed(d) ==
  CASE d = "unparseable" -> [kind |-> "unparseable", members |-> <<>>]
    [] d = "list"        -> [kind |-> "list", members |-> <<>>]
    [] d = "empty"       -> [kind |-> "object", members |-> <<>>]
    [] d = "label_only"  -> [kind |-> "object", members |-> << <<"label", "Symptom">> >>]
    [] d = "empty_name"  -> [kind |-> "object",
                             members |-> << <<"name", "">>, <<"label", "Symptom">> >>]
    [] d = "query"       -> [kind |-> "object",
                             members |-> << <<"name", "db timeout">>,
                                            <<"label", "Symptom">> >>]
    [] d = "fix"         -> [kind |-> "object", members |-> TextFix]
    [] d = "bad"         -> [kind |-> "object", members |-> TextBad]

\* an exception on its way out of the try body
Raise(ret) == [ret EXCEPT !.raised = TRUE]

\* the calls made: every operation with unparseable data, and each operation
\* with the data values that take it down a path of its own
ForwardCalls ==
  {<<operation, "unparseable">> : operation \in Operations}
    \cup {<<"write_graph", d>> : d \in {"list", "empty", "fix", "bad"}}
    \cup {<<"query_existing", d>> : d \in {"list", "empty", "label_only", "empty_name",
                                          "query"}}
    \cup {<<"get_stats", d>> : d \in {"list", "empty"}}
    \cup {<<"delete_all", d>> : d \in {"empty", "fix"}}

\* the try body of forward: json.loads(data) if isinstance(data, str) else
\* data, then the dispatch on operation.  drew says that a run id was drawn.
TryBody(c, ns, rs, cstate, gup, gap, run_id, operation, d) ==
  LET data == DataNamed(d)
      still(ret) == {[cache |-> c, nodes |-> ns, rels |-> rs, drew |-> FALSE, ret |-> ret]}
  IN IF data.kind = "unparseable"
     THEN still(Raise(Failed("JSONDecodeError")))
     ELSE CASE operation = "write_graph" ->
                 IF data.kind # "object"
                 THEN \* graph_json.get raises after the run id was drawn
                      {[cache |-> c, nodes |-> ns, rels |-> rs, drew |-> TRUE,
                        ret |-> Raise([Failed("AttributeError") EXCEPT !.run_id = run_id])]}
                 ELSE LET o == WriteGraphOutcome(ns, rs, gup, DataDict(data.members), run_id)
                      IN {[cache |-> c, nodes |-> o.nodes, rels |-> o.rels, drew |-> TRUE,
                           ret |-> IF o.ret.ok THEN o.ret ELSE Raise(o.ret)]}
            [] operation = "query_existing" ->
                 IF data.kind # "object"
                 THEN still(Raise(Failed("AttributeError")))
                 ELSE IF Get(data.members, "name", "") = ""
                         \/ Get(data.members, "label", "") = ""
                      THEN \* `if not name or not label`
                           still(Failed("Missing"))
                      ELSE {[cache |-> o.cache, nodes |-> ns, rels |-> rs, drew |-> FALSE,
                             ret |-> IF o.ret.ok THEN o.ret ELSE Raise(o.ret)] :
                              o \in QueryExistingOutcomes(c, ns, cstate, gup, gap,
                                                          Get(data.members, "name", ""),
                                                          Get(data.members, "label", ""))}
            [] operation = "get_stats" ->
                 LET ret == GetStatsOutcome(ns, rs, gup)
                 IN still(IF ret.ok THEN ret ELSE Raise(ret))
            [] OTHER -> still(Failed("Unknown operation"))

\* ForwardOutcomes without the except branch
ForwardUncaught(c, ns, rs, cstate, gup, gap, run_id, operation, d) ==
  TryBody(c, ns, rs, cstate, gup, gap, run_id, operation, d)

\* forward: `except Exception as e: return json.dumps({"error": str(e)})`
ForwardOutcomes(c, ns, rs, cstate, gup, gap, run_id, operation, d) ==
  {[o EXCEPT !.ret.raised = FALSE] :
     o \in TryBody(c, ns, rs, cstate, gup, gap, run_id, operation, d)}

\* ------------------------------------------------------------------------
\* Record of the latest call
\* ------------------------------------------------------------------------
NoCall ==
  [op |-> "none", name |-> "", label |-> "", payload |-> "", arg |-> <<>>,
   ret |-> NoReturn,
   cold |-> FALSE, cacheAt |-> "", graphAt |-> FALSE, corruptAt |-> FALSE,
   afterWarmup |-> FALSE,
   nodesBefore |-> 0, relsBefore |-> 0,
   hadAnswer |-> FALSE, earlier |-> <<>>, hadSettled |-> FALSE, settledNodes |-> <<>>,
   prevOp |-> "none", prevArg |-> <<>>, prev |-> NoReturn, prevCold |-> FALSE]

\* the call before this one succeeded and was about the same text and label,
\* or the same payload
SameTarget(name, label, payload) ==
  /\ last.op # "none" /\ last.ret.ok
  /\ last.name = name /\ last.label = label /\ last.payload = payload

Call(op, name, label, payload, arg, ret) ==
  [op |-> op, name |-> name, label |-> label, payload |-> payload, arg |-> arg,
   ret |-> ret,
   cold |-> (DOMAIN cache = {}), cacheAt |-> cacheState, graphAt |-> graphUp,
   corruptAt |-> /\ op \in {"query_existing", "check"}
                 /\ \E k \in DOMAIN cache : ~cache[k].valid
                 /\ LET near == Nearest(cache, CacheKey(name, label), labelGap)
                    IN near # {} /\ \A k \in near : ~cache[k].valid,
   afterWarmup |-> /\ last.ret.ok
                   /\ \/ last.op = "warmup"
                      \/ /\ last.afterWarmup
                         /\ \/ last.op = "check"
                            \/ last.op = "query_existing" /\ last.ret.source = "cache",
   nodesBefore |-> Len(nodes), relsBefore |-> Len(rels),
   hadAnswer |-> (op = "query_existing" /\ CacheKey(name, label) \in DOMAIN answered),
   earlier |-> IF op = "query_existing" /\ CacheKey(name, label) \in DOMAIN answered
               THEN answered[CacheKey(name, label)] ELSE <<>>,
   hadSettled |-> (op = "query_existing" /\ CacheKey(name, label) \in DOMAIN settled),
   settledNodes |-> IF op = "query_existing" /\ CacheKey(name, label) \in DOMAIN settled
                    THEN settled[CacheKey(name, label)] ELSE <<>>,
   prevOp |-> IF SameTarget(name, label, payload) THEN last.op ELSE "none",
   prevArg |-> IF SameTarget(name, label, payload) THEN last.arg ELSE <<>>,
   prev |-> IF SameTarget(name, label, payload) THEN last.ret ELSE NoReturn,
   prevCold |-> IF SameTarget(name, label, payload) THEN last.cold ELSE FALSE]

Remember(a, key, ns) == [k \in DOMAIN a \cup {key} |-> IF k = key THEN ns ELSE a[k]]

NothingAnswered == [k \in {} |-> <<>>]

PayloadName(graph_json) ==
  CASE graph_json = PayloadFix -> "fix"
    [] graph_json = PayloadOne -> "one"
    [] graph_json = PayloadBad -> "bad"
    [] graph_json = PayloadTwins -> "twins"
    [] graph_json = PayloadDup -> "dup"
    [] graph_json = PayloadLate -> "late"

PayloadNamed(payload) ==
  CASE payload = "fix" -> PayloadFix
    [] payload = "one" -> PayloadOne
    [] payload = "bad" -> PayloadBad
    [] payload = "twins" -> PayloadTwins
    [] payload = "dup" -> PayloadDup
    [] payload = "late" -> PayloadLate

\* the (text, label) pairs looked up
QueryKeys ==
  {CacheKey(n, "Symptom") : n \in Names} \cup {CacheKey("db timeout", "Action")}

\* payloads whose logical ids repeat, within one payload or from one call to
\* the next
RunTexts == {TextFix, TextDup, TextLate}

\* label texts sent to query_existing
LabelTexts == {"Symptom", "Action", RenameLabel}

\* ... while the cache's backing service fails and recovers
FaultQueryKeys == {CacheKey("db timeout", "Symptom"), CacheKey("db time out", "Symptom")}

\* ... after the Warmup Job: the names and labels of the nodes written
WarmQueryKeys == FaultQueryKeys \cup {CacheKey("db timeout", "Action")}

\* node lists handed to Neo4jSemanticCache.store by its callers
StoredLists ==
  { <<>>,
    <<Summary(0, "db timeout", 0, Null)>>,
    <<Summary(1, "db time out", 1, 5), Summary(2, "db timed out", 2, 1)>> }

\* ------------------------------------------------------------------------
\* Operations of Neo4jKnowledgeGraphTool.forward
\* ------------------------------------------------------------------------
QueryExisting(name, label) ==
  \E o \in QueryExistingOutcomes(cache, nodes, cacheState, graphUp, labelGap, name, label) :
    /\ cache' = o.cache
    /\ last' = Call("query_existing", name, label, "", <<>>, o.ret)
    /\ answered' = IF o.ret.ok
                   THEN Remember(answered, CacheKey(name, label), o.ret.nodes)
                   ELSE answered
    /\ settled' = IF ~o.ret.ok
                  THEN settled
                  ELSE IF o.cache = cache
                       THEN Remember(settled, CacheKey(name, label), o.ret.nodes)
                       ELSE Remember(NothingAnswered, CacheKey(name, label), o.ret.nodes)
    /\ UNCHANGED <<nodes, rels, runCount, cacheState, graphUp, labelGap, okRuns, writers, cli>>

\* query_existing with the label as the text the caller sent
QueryExistingText(name, label) ==
  \E o \in QueryExistingTextOutcomes(cache, nodes, cacheState, graphUp, labelGap,
                                     name, label) :
    /\ cache' = o.cache
    /\ nodes' = o.nodes
    /\ last' = Call("query_existing", name, label, "", <<>>, o.ret)
    /\ answered' = NothingAnswered
    /\ settled' = NothingAnswered
    /\ UNCHANGED <<rels, runCount, cacheState, graphUp, labelGap, okRuns, writers, cli>>

WriteGraph(graph_json) ==
  LET o == WriteGraphOutcome(nodes, rels, graphUp, graph_json, runCount + 1)
  IN /\ runCount < MaxWrites
     /\ runCount' = runCount + 1
     /\ nodes' = o.nodes
     /\ rels' = o.rels
     /\ okRuns' = IF o.ret.ok THEN okRuns \cup {runCount + 1} ELSE okRuns
     /\ last' = Call("write_graph", "", "", PayloadName(graph_json), <<>>, o.ret)
     /\ answered' = NothingAnswered
     /\ settled' = NothingAnswered
     /\ UNCHANGED <<cache, cacheState, graphUp, labelGap, writers, cli>>

GetStats ==
  /\ last' = Call("get_stats", "", "", "", <<>>, GetStatsOutcome(nodes, rels, graphUp))
  /\ UNCHANGED <<nodes, rels, runCount, cache, cacheState, graphUp, labelGap, okRuns,
                 answered, settled, writers, cli>>

\* the tool's entry point; the data submitted is kept in last.arg
Forward(operation, d) ==
  \E o \in ForwardOutcomes(cache, nodes, rels, cacheState, graphUp, labelGap,
                           runCount + 1, operation, d) :
    /\ o.drew => runCount < MaxFaultWrites
    /\ runCount' = IF o.drew THEN runCount + 1 ELSE runCount
    /\ cache' = o.cache
    /\ nodes' = o.nodes
    /\ rels' = o.rels
    /\ okRuns' = IF o.drew /\ o.ret.ok THEN okRuns \cup {runCount + 1} ELSE okRuns
    /\ last' = Call(operation, Get(DataNamed(d).members, "name", ""),
                    Get(DataNamed(d).members, "label", ""), "", <<d>>, o.ret)
    /\ answered' = NothingAnswered
    /\ settled' = NothingAnswered
    /\ UNCHANGED <<cacheState, graphUp, labelGap, writers, cli>>

\* ------------------------------------------------------------------------
\* The pipeline's node lookup, MultiModelClassifier._lookup_node
\* ------------------------------------------------------------------------
\* data.get("nodes", []) of what forward("query_existing", ...) returned: a
\* bare list, the empty one when the response carries "error" instead
LookupReturn(ret) ==
  [NoReturn EXCEPT !.ok = TRUE, !.nodes = IF ret.ok THEN ret.nodes ELSE <<>>,
                   !.count = IF ret.ok THEN Len(ret.nodes) ELSE 0,
                   !.queriedGraph = ret.queriedGraph]

LookupNode(label, name) ==
  \E o \in QueryExistingOutcomes(cache, nodes, cacheState, graphUp, labelGap, name, label) :
    /\ cache' = o.cache
    /\ last' = Call("lookup_node", name, label, "", <<>>, LookupReturn(o.ret))
    /\ answered' = IF o.ret.ok
                   THEN Remember(answered, CacheKey(name, label), o.ret.nodes)
                   ELSE answered
    /\ settled' = IF ~o.ret.ok
                  THEN settled
                  ELSE IF o.cache = cache
                       THEN Remember(settled, CacheKey(name, label), o.ret.nodes)
                       ELSE Remember(NothingAnswered, CacheKey(name, label), o.ret.nodes)
    /\ UNCHANGED <<nodes, rels, runCount, cacheState, graphUp, labelGap, okRuns, writers, cli>>

\* ------------------------------------------------------------------------
\* The pipeline's persist step, MultiModelClassifier._persist_to_knowledge_graph
\* ------------------------------------------------------------------------
\* final classifications handed to the step
Finals ==
  {[symptom |-> "db timeout", cause |-> "db time out", action |-> "db timeout"]}

\* _build_graph_payload: a Symptom, a Cause and an Action node with logical ids
\* "<classification_id>:<key>", joined by CAUSES and FIXES
BuildGraphPayload(final) ==
  [nodes |-> << [id |-> "c:symptom", label |-> "Symptom",
                 properties |-> Props(final.symptom, Null, "", Null)],
                [id |-> "c:cause", label |-> "Cause",
                 properties |-> Props(final.cause, Null, "", Null)],
                [id |-> "c:action", label |-> "Action",
                 properties |-> Props(final.action, Null, "", Null)] >>,
   relationships |-> << [type |-> "CAUSES", start_node_id |-> "c:cause",
                         end_node_id |-> "c:symptom"],
                        [type |-> "FIXES", start_node_id |-> "c:action",
                         end_node_id |-> "c:cause"] >>]

\* the (label, text) pairs looked up and stored, in the order of the code
Wanted(final) ==
  << <<"Symptom", final.symptom>>, <<"Cause", final.cause>>, <<"Action", final.action>> >>

\* datetime.now().isoformat(): a string, where the store's created_at is a number
IsoNow == -2

\* the entry stored for a text whose lookup returned nothing
Placeholder(text_value) == Summary(Null, text_value, IsoNow, 1)

\* the three _lookup_node calls from pair i on: the cache left behind and the
\* lists found
RECURSIVE LookupAll(_, _, _, _, _, _, _)
LookupAll(c, ns, cstate, gup, gap, wanted, i) ==
  IF i > Len(wanted)
  THEN {[cache |-> c, found |-> <<>>]}
  ELSE UNION {{[cache |-> rest.cache, found |-> <<LookupReturn(o.ret).nodes>> \o rest.found] :
                 rest \in LookupAll(o.cache, ns, cstate, gup, gap, wanted, i + 1)} :
                o \in QueryExistingOutcomes(c, ns, cstate, gup, gap,
                                            wanted[i][2], wanted[i][1])}

\* _store_nodes_in_cache from pair i on: `payload = node_entries or [placeholder]`,
\* then cache.store, whose exception is caught
RECURSIVE StoreFound(_, _, _, _, _)
StoreFound(c, cstate, wanted, found, i) ==
  IF i > Len(wanted)
  THEN c
  ELSE StoreFound(IF cstate = "up"
                  THEN Store(c, wanted[i][2],
                             IF found[i] # <<>> THEN found[i]
                             ELSE <<Placeholder(wanted[i][2])>>,
                             wanted[i][1])
                  ELSE c,
                  cstate, wanted, found, i + 1)

\* one run of the step: forward("write_graph"), whose error response is read
\* like any other, then the lookups, then the stores
Persist(final) ==
  LET written == WriteGraphOutcome(nodes, rels, graphUp, BuildGraphPayload(final),
                                   runCount + 1)
  IN /\ runCount < MaxFaultWrites
     /\ runCount' = runCount + 1
     /\ nodes' = written.nodes
     /\ rels' = written.rels
     /\ okRuns' = IF written.ret.ok THEN okRuns \cup {runCount + 1} ELSE okRuns
     /\ \E looked \in LookupAll(cache, written.nodes, cacheState, graphUp, labelGap,
                               Wanted(final), 1) :
          cache' = StoreFound(looked.cache, cacheState, Wanted(final), looked.found, 1)
     /\ last' = Call("persist", "", "", "", <<>>, written.ret)
     /\ answered' = NothingAnswered
     /\ settled' = NothingAnswered
     /\ UNCHANGED <<cacheState, graphUp, labelGap, writers, cli>>

\* ------------------------------------------------------------------------
\* The Warmup Job, warmup_cache
\* ------------------------------------------------------------------------
\* rank of a label in ORDER BY label
LabelRank(label) == IF label = "Action" THEN 1 ELSE 2

\* node a sorts strictly before node b in ORDER BY label, n.times_seen DESC
\* (null sorts first in descending order)
SortsBefore(a, b) ==
  \/ LabelRank(a.label) < LabelRank(b.label)
  \/ /\ a.label = b.label
     /\ \/ a.times_seen = Null /\ b.times_seen # Null
        \/ a.times_seen # Null /\ b.times_seen # Null /\ a.times_seen > b.times_seen

\* the row orders the query can return for the nodes `remaining`: rows that
\* compare equal come in any order
RECURSIVE OrderedRows(_, _)
OrderedRows(ns, remaining) ==
  IF remaining = {}
  THEN {<<>>}
  ELSE UNION {{<<i>> \o rest : rest \in OrderedRows(ns, remaining \ {i})} :
                i \in {x \in remaining : \A y \in remaining : ~SortsBefore(ns[y], ns[x])}}

\* StoreRows that stores the row at hand and stops
StoreRowsFirstOnly(c, ns, rows, i) ==
  IF i > Len(rows)
  THEN c
  ELSE Store(c, ns[rows[i]].name,
             <<Summary(ns[rows[i]].id, ns[rows[i]].name,
                       ns[rows[i]].created_at, ns[rows[i]].times_seen)>>,
             ns[rows[i]].label)

\* the loops over by_label: one cache.store per row, a list of that one node
RECURSIVE StoreRows(_, _, _, _)
StoreRows(c, ns, rows, i) ==
  IF i > Len(rows)
  THEN c
  ELSE StoreRows(Store(c, ns[rows[i]].name,
                       <<Summary(ns[rows[i]].id, ns[rows[i]].name,
                                 ns[rows[i]].created_at, ns[rows[i]].times_seen)>>,
                       ns[rows[i]].label),
                 ns, rows, i + 1)

\* the caches warmup_cache can leave behind
WarmupOutcomes(c, ns) ==
  {StoreRows(c, ns, rows, 1) :
     rows \in OrderedRows(ns, {i \in 1..Len(ns) : ns[i].name # ""})}

\* warmup_cache(); it raises, with nothing stored, when a backing service
\* cannot be reached
Warmup ==
  /\ IF graphUp /\ cacheState = "up"
     THEN /\ cache' \in WarmupOutcomes(cache, nodes)
          /\ last' = Call("warmup", "", "", "", <<>>, [NoReturn EXCEPT !.ok = TRUE])
     ELSE /\ cache' = cache
          /\ last' = Call("warmup", "", "", "", <<>>,
                          Failed(IF graphUp THEN "cache" ELSE "neo4j"))
  /\ answered' = NothingAnswered
  /\ settled' = NothingAnswered
  /\ UNCHANGED <<nodes, rels, runCount, cacheState, graphUp, labelGap, okRuns, writers, cli>>

\* ------------------------------------------------------------------------
\* write_graph calls of concurrent processes: every create_node and
\* create_relationship is a write transaction of its own
\* ------------------------------------------------------------------------
Writers == {1, 2}

\* no call made yet
Idle ==
  [pc |-> "idle", payload |-> "", members |-> <<>>, i |-> 0,
   id_mapping |-> EmptyMapping, run_id |-> 0]

\* the call of a process is over: pc is "done" after a return, "failed" after
\* an exception; its payload and run id stay on record
Ended(me, pc) == [me EXCEPT !.pc = pc, !.i = 0, !.id_mapping = EmptyMapping]

\* forward("write_graph", data) is entered: the run id is drawn
BeginWrite(w, data) ==
  LET graph_json == DataDict(data)
  IN /\ writers[w].pc \in {"idle", "done", "failed"}
     /\ runCount < MaxWrites
     /\ runCount' = runCount + 1
     /\ writers' = [writers EXCEPT ![w] =
                      [pc |-> IF Len(graph_json.nodes) > 0 THEN "nodes" ELSE "rels",
                       payload |-> PayloadName(graph_json),
                       members |-> [m \in 1..Len(data) |-> data[m][1]], i |-> 1,
                       id_mapping |-> EmptyMapping, run_id |-> runCount + 1]]
     /\ UNCHANGED <<nodes, rels, cache, cacheState, graphUp, labelGap, okRuns, answered,
                    settled, last, cli>>

\* WriteNode that leaves the node loop after its first iteration
WriteNodeOnce(w) ==
  LET me == writers[w]
      pnodes == PayloadNamed(me.payload).nodes
  IN /\ me.pc = "nodes"
     /\ me.i <= Len(pnodes)
     /\ nodes' = CreateNode(nodes, rels, pnodes[me.i].label, pnodes[me.i].properties,
                            me.run_id)
     /\ writers' = [writers EXCEPT ![w] =
                      [me EXCEPT !.pc = "rels",
                                 !.i = 1,
                                 !.id_mapping =
                                    [a \in DOMAIN me.id_mapping \cup {pnodes[me.i].id} |->
                                       IF a = pnodes[me.i].id THEN Len(nodes)
                                       ELSE me.id_mapping[a]]]]
     /\ answered' = NothingAnswered
     /\ settled' = NothingAnswered
     /\ UNCHANGED <<rels, runCount, cache, cacheState, graphUp, labelGap, okRuns, last, cli>>

\* WriteNode that waits while another call in progress holds a node of the
\* same label and name
WriteNodeLocked(w) ==
  LET me == writers[w]
      pnodes == PayloadNamed(me.payload).nodes
  IN /\ me.pc = "nodes"
     /\ \A o \in Writers \ {w} :
          writers[o].pc \in {"nodes", "rels"}
            => ~\E i \in 1..Len(nodes) : /\ nodes[i].run_id = writers[o].run_id
                                         /\ nodes[i].label = pnodes[me.i].label
                                         /\ nodes[i].name = pnodes[me.i].properties.name
     /\ me.i <= Len(pnodes)
     /\ nodes' = CreateNode(nodes, rels, pnodes[me.i].label, pnodes[me.i].properties,
                            me.run_id)
     /\ writers' = [writers EXCEPT ![w] =
                      [me EXCEPT !.pc = IF me.i = Len(pnodes) THEN "rels" ELSE "nodes",
                                 !.i = IF me.i = Len(pnodes) THEN 1 ELSE me.i + 1,
                                 !.id_mapping =
                                    [a \in DOMAIN me.id_mapping \cup {pnodes[me.i].id} |->
                                       IF a = pnodes[me.i].id THEN Len(nodes)
                                       ELSE me.id_mapping[a]]]]
     /\ answered' = NothingAnswered
     /\ settled' = NothingAnswered
     /\ UNCHANGED <<rels, runCount, cache, cacheState, graphUp, labelGap, okRuns, last, cli>>

\* WriteNode that keeps the first store id recorded for a logical id
WriteNodeKeepsFirst(w) ==
  LET me == writers[w]
      pnodes == PayloadNamed(me.payload).nodes
  IN /\ me.pc = "nodes"
     /\ me.i <= Len(pnodes)
     /\ nodes' = CreateNode(nodes, rels, pnodes[me.i].label, pnodes[me.i].properties,
                            me.run_id)
     /\ writers' = [writers EXCEPT ![w] =
                      [me EXCEPT !.pc = IF me.i = Len(pnodes) THEN "rels" ELSE "nodes",
                                 !.i = IF me.i = Len(pnodes) THEN 1 ELSE me.i + 1,
                                 !.id_mapping =
                                    [a \in DOMAIN me.id_mapping \cup {pnodes[me.i].id} |->
                                       IF a \in DOMAIN me.id_mapping THEN me.id_mapping[a]
                                       ELSE Len(nodes)]]]
     /\ answered' = NothingAnswered
     /\ settled' = NothingAnswered
     /\ UNCHANGED <<rels, runCount, cache, cacheState, graphUp, labelGap, okRuns, last, cli>>

\* one iteration of the node loop
WriteNode(w) ==
  LET me == writers[w]
      pnodes == PayloadNamed(me.payload).nodes
  IN /\ me.pc = "nodes"
     /\ me.i <= Len(pnodes)
     /\ nodes' = CreateNode(nodes, rels, pnodes[me.i].label, pnodes[me.i].properties,
                            me.run_id)
     /\ writers' = [writers EXCEPT ![w] =
                      [me EXCEPT !.pc = IF me.i = Len(pnodes) THEN "rels" ELSE "nodes",
                                 !.i = IF me.i = Len(pnodes) THEN 1 ELSE me.i + 1,
                                 !.id_mapping =
                                    [a \in DOMAIN me.id_mapping \cup {pnodes[me.i].id} |->
                                       IF a = pnodes[me.i].id THEN Len(nodes)
                                       ELSE me.id_mapping[a]]]]
     /\ answered' = NothingAnswered
     /\ settled' = NothingAnswered
     /\ UNCHANGED <<rels, runCount, cache, cacheState, graphUp, labelGap, okRuns, last, cli>>

\* WriteRelationship over one mapping table shared by the calls in progress
WriteRelationshipSharedMapping(w) ==
  LET me == writers[w]
      prels == PayloadNamed(me.payload).relationships
      others == {o \in Writers \ {w} : writers[o].pc \in {"nodes", "rels"}}
      shared(a) == IF a \in DOMAIN me.id_mapping
                   THEN {me.id_mapping[a]}
                   ELSE {writers[o].id_mapping[a] :
                           o \in {x \in others : a \in DOMAIN writers[x].id_mapping}}
      known == /\ shared(prels[me.i].start_node_id) # {}
               /\ shared(prels[me.i].end_node_id) # {}
      made == CreateRelationship(nodes, rels, prels[me.i].type,
                                 CHOOSE x \in shared(prels[me.i].start_node_id) : TRUE,
                                 CHOOSE y \in shared(prels[me.i].end_node_id) : TRUE,
                                 me.run_id)
  IN /\ me.pc = "rels"
     /\ me.i <= Len(prels)
     /\ IF known /\ made.ok
        THEN /\ rels' = made.rels
             /\ writers' = [writers EXCEPT ![w] = [me EXCEPT !.i = me.i + 1]]
             /\ answered' = NothingAnswered
             /\ settled' = NothingAnswered
             /\ UNCHANGED last
        ELSE /\ writers' = [writers EXCEPT ![w] = Ended(me, "failed")]
             /\ last' = Call("write_graph", "", "", me.payload, me.members,
                             [Failed("KeyError") EXCEPT !.run_id = me.run_id])
             /\ UNCHANGED <<rels, answered, settled>>
     /\ UNCHANGED <<nodes, runCount, cache, cacheState, graphUp, labelGap, okRuns, cli>>

\* WriteRelationship that creates the relationship also when a logical id has
\* no node, leaving that end on no node at all
WriteRelationshipUnresolved(w) ==
  LET me == writers[w]
      prels == PayloadNamed(me.payload).relationships
      at(a) == IF a \in DOMAIN me.id_mapping THEN me.id_mapping[a] ELSE Null
  IN /\ me.pc = "rels"
     /\ me.i <= Len(prels)
     /\ rels' = Append(rels, [id |-> Len(rels), type |-> prels[me.i].type,
                              start |-> at(prels[me.i].start_node_id),
                              end |-> at(prels[me.i].end_node_id),
                              created_at |-> Timestamp(nodes, rels),
                              run_id |-> me.run_id])
     /\ writers' = [writers EXCEPT ![w] = [me EXCEPT !.i = me.i + 1]]
     /\ answered' = NothingAnswered
     /\ settled' = NothingAnswered
     /\ UNCHANGED <<nodes, runCount, cache, cacheState, graphUp, labelGap, okRuns, last, cli>>

\* one iteration of the relationship loop; a KeyError or IndexError ends the
\* call in forward's except branch
WriteRelationship(w) ==
  LET me == writers[w]
      prels == PayloadNamed(me.payload).relationships
      known == /\ prels[me.i].start_node_id \in DOMAIN me.id_mapping
               /\ prels[me.i].end_node_id \in DOMAIN me.id_mapping
      made == CreateRelationship(nodes, rels, prels[me.i].type,
                                 me.id_mapping[prels[me.i].start_node_id],
                                 me.id_mapping[prels[me.i].end_node_id], me.run_id)
  IN /\ me.pc = "rels"
     /\ me.i <= Len(prels)
     /\ IF known /\ made.ok
        THEN /\ rels' = made.rels
             /\ writers' = [writers EXCEPT ![w] = [me EXCEPT !.i = me.i + 1]]
             /\ answered' = NothingAnswered
             /\ settled' = NothingAnswered
             /\ UNCHANGED last
        ELSE /\ writers' = [writers EXCEPT ![w] = Ended(me, "failed")]
             /\ last' = Call("write_graph", "", "", me.payload, me.members,
                             [Failed("KeyError") EXCEPT !.run_id = me.run_id])
             /\ UNCHANGED <<rels, answered, settled>>
     /\ UNCHANGED <<nodes, runCount, cache, cacheState, graphUp, labelGap, okRuns, cli>>

\* both loops are over: _write_graph returns the counts and the run id
ReturnWrite(w) ==
  LET me == writers[w]
      graph_json == PayloadNamed(me.payload)
  IN /\ me.pc = "rels"
     /\ me.i > Len(graph_json.relationships)
     /\ writers' = [writers EXCEPT ![w] = Ended(me, "done")]
     /\ okRuns' = okRuns \cup {me.run_id}
     /\ last' = Call("write_graph", "", "", me.payload, me.members,
                     [NoReturn EXCEPT !.ok = TRUE,
                                      !.nodes_created = Len(graph_json.nodes),
                                      !.relationships_created = Len(graph_json.relationships),
                                      !.run_id = me.run_id])
     /\ UNCHANGED <<nodes, rels, runCount, cache, cacheState, graphUp, labelGap, answered,
                    settled, cli>>

\* ------------------------------------------------------------------------
\* The interactive CLI (agents/mami/main.py): one agent.run, whose every
\* ActionStep is handed to interrupt_on_existing_node_review and then to
\* interrupt_on_final_answer
\* ------------------------------------------------------------------------
\* action_output of a step, by what it parses to: nothing (a tool-call step), a
\* dict of the existing_node_review phase with or without existing nodes, a
\* knowledge graph, or a str that is no JSON
Output(kind, existing, graph) == [kind |-> kind, existing |-> existing, graph |-> graph]

\* no step yet
CliStart ==
  [pc |-> "start", steps |-> 0, is_final_answer |-> FALSE,
   output |-> Output("none", FALSE, ""), phase |-> "",
   interrupted |-> FALSE, review |-> "", prompted |-> FALSE, choice |-> "",
   wrote |-> FALSE]

\* the steps the agent produces
StepOutputs ==
  {[final |-> FALSE, output |-> Output("none", FALSE, "")],
   [final |-> TRUE, output |-> Output("review", FALSE, "")],
   [final |-> TRUE, output |-> Output("review", TRUE, "")],
   [final |-> TRUE, output |-> Output("graph", FALSE, "fix")],
   [final |-> TRUE, output |-> Output("text", FALSE, "")]}

\* the agent's run loop produces its next step, unless the run is over: a
\* final answer was kept, or interrupt() was called.  phase keeps what the step
\* was when it was produced.
AgentStep(out) ==
  /\ cli.pc \in {"start", "next"}
  /\ ~cli.interrupted /\ ~cli.is_final_answer
  /\ cli.steps < MaxSteps
  /\ cli' = [pc |-> "review", steps |-> cli.steps + 1, is_final_answer |-> out.final,
             output |-> out.output,
             phase |-> IF out.final THEN out.output.kind ELSE "none",
             interrupted |-> FALSE, review |-> "", prompted |-> FALSE, choice |-> "",
             wrote |-> FALSE]
  /\ UNCHANGED <<nodes, rels, runCount, cache, cacheState, graphUp, labelGap, okRuns,
                 answered, settled, writers, last>>

\* interrupt_on_existing_node_review with what the user types at its prompt
\* ("" when it shows none)
ReviewCallback(input) ==
  /\ cli.pc = "review"
  /\ IF cli.is_final_answer /\ cli.output.kind = "review"
     THEN IF ~cli.output.existing
          THEN \* "Proceed to generate new graph? (y/n)"
               /\ input \in {"y", "n"}
               /\ cli' = IF input = "y"
                         THEN [cli EXCEPT !.pc = "final", !.review = "proceed",
                                          !.is_final_answer = FALSE]
                         ELSE [cli EXCEPT !.pc = "final", !.review = "decline",
                                          !.interrupted = TRUE]
          ELSE \* get_user_choice_for_existing: 1 confirm, 2 modify, 3 skip, 4 cancel
               /\ input \in {"1", "2", "3", "4"}
               /\ cli' = IF input = "4"
                         THEN [cli EXCEPT !.pc = "final", !.review = "cancel",
                                          !.interrupted = TRUE]
                         ELSE [cli EXCEPT !.pc = "final",
                                          !.review = CASE input = "1" -> "confirm"
                                                       [] input = "2" -> "modify"
                                                       [] input = "3" -> "skip",
                                          !.is_final_answer = FALSE]
     ELSE \* not a final answer, another phase, or output_dict.get raised on a
          \* str that is no JSON: the callback returns
          /\ input = ""
          /\ cli' = [cli EXCEPT !.pc = "final"]
  /\ UNCHANGED <<nodes, rels, runCount, cache, cacheState, graphUp, labelGap, okRuns,
                 answered, settled, writers, last>>

\* graph_json as write_knowledge_graph reads kg_output: the two lists of a
\* knowledge graph; a review dict has neither member
KgOutput(output) ==
  IF output.kind = "graph"
  THEN PayloadNamed(output.graph)
  ELSE [nodes |-> <<>>, relationships |-> <<>>]

\* interrupt_on_final_answer with the user's choice at its prompt ("" when it
\* shows none): 1 approve, 2 modify, 3 retry, 4 cancel
FinalAnswerCallback(input) ==
  /\ cli.pc = "final"
  /\ IF ~cli.is_final_answer
     THEN /\ input = ""
          /\ cli' = [cli EXCEPT !.pc = "next"]
          /\ UNCHANGED <<nodes, rels, runCount, okRuns, answered, settled>>
     ELSE /\ input \in {"1", "2", "3", "4"}
          /\ IF input # "1"
             THEN /\ cli' = CASE input = "2" ->
                                   \* action_output becomes what the user typed
                                   [cli EXCEPT !.pc = "next", !.prompted = TRUE,
                                               !.choice = "modify",
                                               !.output = Output("graph", FALSE, "one")]
                              [] input = "3" ->
                                   [cli EXCEPT !.pc = "next", !.prompted = TRUE,
                                               !.choice = "retry",
                                               !.is_final_answer = FALSE]
                              [] input = "4" ->
                                   [cli EXCEPT !.pc = "next", !.prompted = TRUE,
                                               !.choice = "cancel",
                                               !.interrupted = TRUE]
                  /\ UNCHANGED <<nodes, rels, runCount, okRuns, answered, settled>>
             ELSE IF ~graphUp \/ cli.output.kind = "text"
                  THEN \* Neo4jConnection() raises, or graph_json.get does on a
                       \* str: "approved but not persisted"
                       /\ cli' = [cli EXCEPT !.pc = "next", !.prompted = TRUE,
                                             !.choice = "approve",
                                             !.wrote = graphUp]
                       /\ runCount' = IF graphUp THEN runCount + 1 ELSE runCount
                       /\ UNCHANGED <<nodes, rels, okRuns, answered, settled>>
                  ELSE LET o == WriteGraphOutcome(nodes, rels, graphUp,
                                                  KgOutput(cli.output), runCount + 1)
                       IN /\ cli' = [cli EXCEPT !.pc = "next", !.prompted = TRUE,
                                                !.choice = "approve", !.wrote = TRUE]
                          /\ runCount' = runCount + 1
                          /\ nodes' = o.nodes
                          /\ rels' = o.rels
                          /\ okRuns' = IF o.ret.ok THEN okRuns \cup {runCount + 1}
                                       ELSE okRuns
                          /\ answered' = NothingAnswered
                          /\ settled' = NothingAnswered
  /\ UNCHANGED <<cache, cacheState, graphUp, labelGap, writers, last>>

\* agent.run returns the final answer or raises "interrupted"; a step whose
\* final-answer flag a callback cleared may also have been the run's last
RunEnds ==
  /\ cli.pc = "next"
  /\ cli' = [cli EXCEPT !.pc = "ended"]
  /\ UNCHANGED <<nodes, rels, runCount, cache, cacheState, graphUp, labelGap, okRuns,
                 answered, settled, writers, last>>

\* ------------------------------------------------------------------------
\* Operations of Neo4jSemanticCache called directly
\* ------------------------------------------------------------------------
CacheStore(query_text, ns, node_label) ==
  /\ cache' = Store(cache, query_text, ns, node_label)
  /\ last' = Call("store", query_text, node_label, "", ns, [NoReturn EXCEPT !.ok = TRUE])
  /\ UNCHANGED <<nodes, rels, runCount, cacheState, graphUp, labelGap, okRuns, answered,
                 settled, writers, cli>>

\* ret.ok is "a list came back", ret.nodes the list
CacheCheck(query_text, node_label) ==
  \E r \in Check(cache, query_text, node_label, labelGap) :
    /\ last' = Call("check", query_text, node_label, "", <<>>,
                    [NoReturn EXCEPT !.ok = ~r.none, !.nodes = r.value,
                                     !.count = Len(r.value)])
    /\ UNCHANGED <<nodes, rels, runCount, cache, cacheState, graphUp, labelGap,
                   okRuns, answered, settled, writers, cli>>

\* Neo4jSemanticCache.clear
CacheClear ==
  /\ cache # [k \in {} |-> CorruptResponse]
  /\ cache' = [k \in {} |-> CorruptResponse]
  /\ last' = Call("clear", "", "", "", <<>>, [NoReturn EXCEPT !.ok = TRUE])
  /\ UNCHANGED <<nodes, rels, runCount, cacheState, graphUp, labelGap, okRuns, answered,
                 settled, writers, cli>>

\* ------------------------------------------------------------------------
\* Environment: the Semantic Cache's backing service comes and goes
\* ------------------------------------------------------------------------
CacheAvailability(s) ==
  /\ cacheState # s
  /\ cacheState' = s
  /\ UNCHANGED <<nodes, rels, runCount, cache, graphUp, labelGap, okRuns, answered,
                 settled, writers, last, cli>>

\* the stored response of an entry is damaged in the backing service
CacheCorruption(k) ==
  /\ k \in DOMAIN cache
  /\ cache[k].valid
  /\ cache' = [cache EXCEPT ![k] = CorruptResponse]
  /\ settled' = NothingAnswered
  /\ UNCHANGED <<nodes, rels, runCount, cacheState, graphUp, labelGap, okRuns, answered,
                 writers, last, cli>>

\* ... and so does the Graph Store
GraphAvailability(up) ==
  /\ graphUp # up
  /\ graphUp' = up
  /\ UNCHANGED <<nodes, rels, runCount, cache, cacheState, labelGap, okRuns, answered,
                 settled, writers, last, cli>>

\* ------------------------------------------------------------------------
\* Specifications
\* ------------------------------------------------------------------------
Init ==
  /\ nodes = <<>>
  /\ rels = <<>>
  /\ runCount = 0
  /\ cache = [k \in {} |-> CorruptResponse]
  /\ cacheState = "up"
  /\ graphUp = TRUE
  /\ labelGap \in LabelGaps
  /\ okRuns = {}
  /\ answered = NothingAnswered
  /\ settled = NothingAnswered
  /\ writers = [w \in Writers |-> Idle]
  /\ cli = CliStart
  /\ last = NoCall

\* the tool with both backing services reachable
Next ==
  \/ \E key \in QueryKeys : QueryExisting(key[2], key[1])
  \/ \E graph_json \in Payloads : WriteGraph(graph_json)

Spec == Init /\ [][Next]_vars

\* the tool while the Semantic Cache's backing service fails and recovers
NextCacheFault ==
  \/ \E key \in FaultQueryKeys : QueryExisting(key[2], key[1])
  \/ \E graph_json \in Payloads : WriteGraph(graph_json)
  \/ \E s \in {"up", "readonly", "down"} : CacheAvailability(s)

SpecCacheFault == Init /\ [][NextCacheFault]_vars

\* the Semantic Cache under its own interface
NextCache ==
  \/ \E key \in QueryKeys, ns \in StoredLists : CacheStore(key[2], ns, key[1])
  \/ \E key \in QueryKeys : CacheCheck(key[2], key[1])
  \/ CacheClear

SpecCache == Init /\ [][NextCache]_vars

\* the tool and the pipeline's lookup while either backing service fails and
\* recovers
NextFault ==
  \/ \E key \in FaultQueryKeys : QueryExisting(key[2], key[1])
  \/ \E key \in FaultQueryKeys : LookupNode(key[1], key[2])
  \/ \E graph_json \in Payloads : runCount < MaxFaultWrites /\ WriteGraph(graph_json)
  \/ GetStats
  \/ \E s \in {"up", "down"} : CacheAvailability(s)
  \/ \E up \in BOOLEAN : GraphAvailability(up)

SpecFault == Init /\ [][NextFault]_vars

\* the tool and the cache while stored entries get damaged
NextCorrupt ==
  \/ \E key \in FaultQueryKeys : QueryExisting(key[2], key[1])
  \/ \E key \in FaultQueryKeys : CacheCheck(key[2], key[1])
  \/ \E graph_json \in Payloads : runCount < MaxFaultWrites /\ WriteGraph(graph_json)
  \/ \E k \in Keys : CacheCorruption(k)

SpecCorrupt == Init /\ [][NextCorrupt]_vars

\* the Warmup Job run on a populated graph, then lookups
NextWarmup ==
  \/ \E graph_json \in WarmupPayloads :
        runCount < MaxFaultWrites /\ WriteGraph(graph_json)
  \/ Warmup
  \/ \E key \in FaultQueryKeys : CacheCheck(key[2], key[1])
  \/ \E key \in WarmQueryKeys : QueryExisting(key[2], key[1])

SpecWarmup == Init /\ [][NextWarmup]_vars

\* the tool in a run where write_graph calls come to an end (there are at most
\* MaxFaultWrites of them) and query_existing calls of every text keep coming
NextLive ==
  \/ \E key \in FaultQueryKeys : QueryExisting(key[2], key[1])
  \/ \E graph_json \in Payloads : runCount < MaxFaultWrites /\ WriteGraph(graph_json)

QueriesContinue ==
  \A key \in FaultQueryKeys : WF_vars(QueryExisting(key[2], key[1]))

SpecLive == Init /\ [][NextLive]_vars /\ QueriesContinue

\* write_graph called by two processes at once
NextWriters ==
  \/ \E w \in Writers, data \in PayloadTexts : BeginWrite(w, data)
  \/ \E w \in Writers : WriteNode(w)
  \/ \E w \in Writers : WriteRelationship(w)
  \/ \E w \in Writers : ReturnWrite(w)

SpecWriters == Init /\ [][NextWriters]_vars

\* write_graph called by two processes with logical ids that repeat
NextRuns ==
  \/ \E w \in Writers, data \in RunTexts : BeginWrite(w, data)
  \/ \E w \in Writers : WriteNode(w)
  \/ \E w \in Writers : WriteRelationship(w)
  \/ \E w \in Writers : ReturnWrite(w)

SpecRuns == Init /\ [][NextRuns]_vars

\* the tool called with label texts of any content
NextText ==
  \/ \E name \in {"db timeout", "db timed out"}, label \in LabelTexts :
        QueryExistingText(name, label)
  \/ \E graph_json \in Payloads : runCount < MaxFaultWrites /\ WriteGraph(graph_json)

SpecText == Init /\ [][NextText]_vars

\* the entry point called with anything, while the backing services fail and
\* recover
NextForward ==
  \/ \E call \in ForwardCalls : Forward(call[1], call[2])
  \/ \E s \in {"up", "down"} : CacheAvailability(s)
  \/ \E up \in BOOLEAN : GraphAvailability(up)

SpecForward == Init /\ [][NextForward]_vars

\* the pipeline's persist step and the tool's lookups while either backing
\* service fails and recovers
NextPipeline ==
  \/ \E final \in Finals : Persist(final)
  \/ \E final \in Finals, i \in 1..3 :
        QueryExisting(Wanted(final)[i][2], Wanted(final)[i][1])
  \/ \E s \in {"up", "down"} : CacheAvailability(s)
  \/ \E up \in BOOLEAN : GraphAvailability(up)

SpecPipeline == Init /\ [][NextPipeline]_vars

\* one run of the interactive CLI, the Graph Store failing and recovering
NextCli ==
  \/ \E out \in StepOutputs : AgentStep(out)
  \/ \E input \in {"", "y", "n", "1", "2", "3", "4"} : ReviewCallback(input)
  \/ \E input \in {"", "1", "2", "3", "4"} : FinalAnswerCallback(input)
  \/ RunEnds
  \/ \E up \in BOOLEAN : GraphAvailability(up)

SpecCli == Init /\ [][NextCli]_vars

\* ------------------------------------------------------------------------
\* Properties
\* ------------------------------------------------------------------------
LastKey == CacheKey(last.name, last.label)

IsQuery == last.op = "query_existing"

\* a query_existing that directly follows a successful query_existing of the
\* same text and label
IsRepeatedQuery == IsQuery /\ last.prevOp = "query_existing"

NodesOfRun(r) == {i \in 1..Len(nodes) : nodes[i].run_id = r}

RelsOfRun(r) == {e \in 1..Len(rels) : rels[e].run_id = r}

\* C1: a query_existing on a cold cache answers with source=neo4j, and the
\* query_existing of the same text and label that directly follows it answers
\* with source=cache.
ColdMissThenHit ==
  (IsRepeatedQuery /\ last.prevCold)
    => (last.prev.source = "neo4j" /\ last.ret.ok /\ last.ret.source = "cache")

\* C2: a miss stores what the graph returned, empty or not, under (name, label),
\* and the next query_existing of the same text and label is answered from that
\* stored result without another Graph Store query.
MissStoredThenServed ==
  /\ (IsQuery /\ last.ret.ok /\ last.ret.source = "neo4j")
       => (LastKey \in DOMAIN cache /\ cache[LastKey] = Dumps(last.ret.nodes))
  /\ (IsRepeatedQuery /\ last.prev.source = "neo4j")
       => (/\ last.ret.ok
           /\ last.ret.source = "cache"
           /\ last.ret.nodes = last.prev.nodes
           /\ ~last.ret.queriedGraph)

\* C3: when cache.check or cache.store raises, query_existing still returns the
\* graph's result with source=neo4j, not an error.
CacheFailureNotFatal ==
  (IsQuery /\ (last.cacheAt = "down"
               \/ (last.cacheAt = "readonly" /\ last.ret.source # "cache")))
    => (/\ last.ret.ok
        /\ last.ret.source = "neo4j"
        /\ last.ret.nodes \in ExistingRows(nodes, last.name, last.label))

\* C4: once a successful write_graph has created a node named N under label L,
\* query_existing(N, L) returns a non-empty list of nodes named N.
WrittenNodeIsFound ==
  (IsQuery /\ last.ret.ok
   /\ \E i \in 1..Len(nodes) : /\ nodes[i].label = last.label
                               /\ nodes[i].name = last.name
                               /\ nodes[i].run_id \in okRuns)
    => (/\ Len(last.ret.nodes) > 0
        /\ \A j \in 1..Len(last.ret.nodes) : last.ret.nodes[j].name = last.name)

\* C5: a write_graph whose relationship names a logical id outside its node
\* list reports an error and leaves none of its nodes or relationships behind.
MalformedWriteLeavesNothing ==
  (last.op = "write_graph" /\ Malformed(PayloadNamed(last.payload)))
    => (/\ ~last.ret.ok
        /\ NodesOfRun(last.ret.run_id) = {}
        /\ RelsOfRun(last.ret.run_id) = {}
        /\ Len(nodes) = last.nodesBefore
        /\ Len(rels) = last.relsBefore)

\* C6: a check(T, L2) never returns the list X that store(T, X, L1) put under
\* another label L1 (unless X is also stored under L2 itself).
LabelPartitioning ==
  (last.op = "check" /\ last.ret.ok)
    => \A k \in DOMAIN cache :
         (k[2] = last.name /\ k[1] # last.label /\ cache[k] = Dumps(last.ret.nodes))
           => \E own \in DOMAIN cache :
                own[1] = last.label /\ cache[own] = Dumps(last.ret.nodes)

\* C7: store(name, nodes, label) directly followed by check(name, label) returns
\* a list equal to nodes, the empty list included.
StoreCheckRoundTrip ==
  (last.op = "check" /\ last.prevOp = "store")
    => (last.ret.ok /\ last.ret.nodes = last.prevArg)

RoundTripWitness ==
  /\ last.op = "check" /\ last.prevOp = "store"
  /\ last.prevArg = <<>>
  /\ last.ret.ok /\ last.ret.nodes = <<>>
  /\ Cardinality(DOMAIN cache) > 1

\* C8: check(Q, L) returns a stored payload exactly when some stored key lies
\* within the distance threshold of Q's composite key, and then it is the
\* payload of a nearest stored key; beyond the threshold nothing is returned.
ThresholdBoundary ==
  last.op = "check"
    => LET d(k) == Dist(k, LastKey, labelGap)
       IN /\ last.ret.ok <=> \E k \in DOMAIN cache : d(k) <= DistanceThreshold
          /\ last.ret.ok =>
               \E k \in DOMAIN cache :
                  /\ d(k) <= DistanceThreshold
                  /\ \A j \in DOMAIN cache : d(k) <= d(j)
                  /\ cache[k] = Dumps(last.ret.nodes)

\* a hit whose nearest stored key lies exactly at the threshold
BoundaryHitWitness ==
  /\ last.op = "check" /\ last.ret.ok
  /\ DOMAIN cache # {}
  /\ \A k \in DOMAIN cache : Dist(k, LastKey, labelGap) >= DistanceThreshold
  /\ \E k \in DOMAIN cache : Dist(k, LastKey, labelGap) = DistanceThreshold + 1

WriteTwiceDuplicates ==
  (last.op = "write_graph" /\ last.ret.ok /\ last.prevOp = "write_graph")
    => LET p == PayloadNamed(last.payload)
           n == Len(p.nodes)
           r == last.ret.run_id
           q == last.prev.run_id
       IN /\ r # q
          /\ Cardinality(NodesOfRun(q)) = n
          /\ Cardinality(NodesOfRun(r)) = n
          /\ Cardinality({nodes[i].id : i \in NodesOfRun(q) \cup NodesOfRun(r)}) = 2 * n
          /\ Len(nodes) = last.nodesBefore + n
          /\ \A i \in NodesOfRun(q) :
               \E j \in NodesOfRun(r) : /\ nodes[j].label = nodes[i].label
                                        /\ nodes[j].name = nodes[i].name
                                        /\ nodes[j].id # nodes[i].id
          /\ Cardinality(RelsOfRun(r)) = Len(p.relationships)
          /\ \A e \in RelsOfRun(r) :
               /\ \E i \in NodesOfRun(r) : nodes[i].id = rels[e].start
               /\ \E j \in NodesOfRun(r) : nodes[j].id = rels[e].end

WriteTwiceWitness ==
  /\ last.op = "write_graph" /\ last.ret.ok /\ last.prevOp = "write_graph"
  /\ last.payload = "fix"
  /\ Len(nodes) = 4 /\ Len(rels) = 2

\* ------------------------------------------------------------------------
\* write_graph step by step
\* ------------------------------------------------------------------------
\* the node of run r that payload node pn of that run became
NodeOfRunFor(r, pn) ==
  {i \in NodesOfRun(r) : nodes[i].label = pn.label /\ nodes[i].name = pn.properties.name}

PayloadNodeWithId(graph_json, a) ==
  graph_json.nodes[CHOOSE k \in 1..Len(graph_json.nodes) : graph_json.nodes[k].id = a]

\* payload relationship pr of run r exists between the nodes its logical ids name
Resolved(r, graph_json, pr) ==
  \E e \in RelsOfRun(r) :
    /\ rels[e].type = pr.type
    /\ \E i \in NodeOfRunFor(r, PayloadNodeWithId(graph_json, pr.start_node_id)) :
          nodes[i].id = rels[e].start
    /\ \E j \in NodeOfRunFor(r, PayloadNodeWithId(graph_json, pr.end_node_id)) :
          nodes[j].id = rels[e].end

\* C11: within one write_graph call every node is created before any
\* relationship: the relationship loop starts with every logical id of the
\* payload mapped to a node of the call, and a payload whose relationships name
\* only logical ids of its node list succeeds with every relationship joining
\* the store ids of the nodes named, whichever of "nodes" and "relationships"
\* came first in the submitted object.
TwoPhaseOrder ==
  /\ \A e \in 1..Len(rels), i \in 1..Len(nodes) :
        nodes[i].run_id = rels[e].run_id => nodes[i].created_at < rels[e].created_at
  /\ \A w \in Writers :
        writers[w].pc = "rels"
          => /\ DOMAIN writers[w].id_mapping = LogicalIds(PayloadNamed(writers[w].payload))
             /\ \A a \in DOMAIN writers[w].id_mapping :
                  \E i \in NodesOfRun(writers[w].run_id) :
                     nodes[i].id = writers[w].id_mapping[a]
  /\ (last.op = "write_graph" /\ ~Malformed(PayloadNamed(last.payload)))
        => /\ last.ret.ok
           /\ \A k \in 1..Len(PayloadNamed(last.payload).relationships) :
                Resolved(last.ret.run_id, PayloadNamed(last.payload),
                         PayloadNamed(last.payload).relationships[k])

\* the object was submitted with "relationships" before "nodes", and another
\* process created a node between the two nodes of this call
RelsFirstWitness ==
  /\ last.op = "write_graph" /\ last.ret.ok
  /\ last.arg = <<"relationships", "nodes">>
  /\ last.payload = "fix"
  /\ Resolved(last.ret.run_id, PayloadFix, PayloadFix.relationships[1])
  /\ \E i \in NodesOfRun(last.ret.run_id), j \in NodesOfRun(last.ret.run_id), x \in 1..Len(nodes) :
        /\ nodes[x].run_id # last.ret.run_id
        /\ nodes[i].id < nodes[x].id /\ nodes[x].id < nodes[j].id

\* C14: a write_graph that returns success reports nodes_created and
\* relationships_created equal to the numbers of nodes and relationships that
\* carry its run id in the Graph Store, which are the lengths of the payload's
\* two lists, and the run id it reports is the one stamped on them.
WriteCountsAreExact ==
  (last.op = "write_graph" /\ last.ret.ok)
    => /\ last.ret.nodes_created = Cardinality(NodesOfRun(last.ret.run_id))
       /\ last.ret.nodes_created = Len(PayloadNamed(last.payload).nodes)
       /\ last.ret.relationships_created = Cardinality(RelsOfRun(last.ret.run_id))
       /\ last.ret.relationships_created = Len(PayloadNamed(last.payload).relationships)
       /\ last.ret.run_id \in okRuns
       /\ \A pn \in {PayloadNamed(last.payload).nodes[k] :
                        k \in 1..Len(PayloadNamed(last.payload).nodes)} :
            NodeOfRunFor(last.ret.run_id, pn) # {}

\* two nodes and one relationship reported while the other process has
\* created nodes of its own
WriteCountsWitness ==
  /\ last.op = "write_graph" /\ last.ret.ok
  /\ last.ret.nodes_created = 2 /\ last.ret.relationships_created = 1
  /\ Len(nodes) > 2
  /\ \E w \in Writers : writers[w].pc \in {"nodes", "rels"}

\* the calls of two processes that both returned
BothDone(w1, w2) ==
  /\ w1 # w2
  /\ writers[w1].pc = "done" /\ writers[w2].pc = "done"

\* C18: write_graph calls of two processes never wait for one another and never
\* fail on a well-formed payload, however their node and relationship
\* creations interleave; when both have returned, every (label, name) that both
\* payloads carry has two nodes with distinct ids, one per call.
ConcurrentWritesBothSucceed ==
  /\ \A w \in Writers :
        writers[w].pc \in {"nodes", "rels"}
          => ENABLED (WriteNode(w) \/ WriteRelationship(w) \/ ReturnWrite(w))
  /\ \A w \in Writers :
        writers[w].pc = "failed" => Malformed(PayloadNamed(writers[w].payload))
  /\ Cardinality(NodeIds(nodes)) = Len(nodes)
  /\ \A w1 \in Writers, w2 \in Writers :
        BothDone(w1, w2)
          => LET p1 == PayloadNamed(writers[w1].payload).nodes
                 p2 == PayloadNamed(writers[w2].payload).nodes
             IN \A k1 \in 1..Len(p1), k2 \in 1..Len(p2) :
                  (p1[k1].label = p2[k2].label
                   /\ p1[k1].properties.name = p2[k2].properties.name)
                    => \E i \in NodeOfRunFor(writers[w1].run_id, p1[k1]),
                          j \in NodeOfRunFor(writers[w2].run_id, p2[k2]) :
                         nodes[i].id # nodes[j].id

\* both processes wrote the same payload, their creations alternated, and
\* the store holds two Symptom nodes named "db timeout"
ConcurrentWritesWitness ==
  /\ BothDone(1, 2)
  /\ writers[1].payload = "fix" /\ writers[2].payload = "fix"
  /\ Len(nodes) = 4 /\ Len(rels) = 2
  /\ nodes[1].run_id # nodes[2].run_id
  /\ nodes[2].run_id # nodes[3].run_id
  /\ Cardinality({i \in 1..Len(nodes) : nodes[i].label = "Symptom"
                                        /\ nodes[i].name = "db timeout"}) = 2

\* ------------------------------------------------------------------------
\* Backing services that fail
\* ------------------------------------------------------------------------
IsToolCall == last.op \in {"write_graph", "query_existing", "get_stats"}

UnreachableIsNotEmpty ==
  (last.op \in {"query_existing", "lookup_node"}
   /\ (~last.graphAt \/ last.cacheAt = "down"))
    => ~(last.ret.ok /\ last.ret.nodes = <<>>)

\* C17: get_stats with the Graph Store reachable returns total_nodes equal to
\* the number of nodes and to the sum of its per-label counts, and
\* total_relationships equal to the number of relationships, whether or not
\* the cache is reachable; the call changes neither the cache nor the graph.
GetStatsCountsGraph ==
  /\ [](  (last.op = "get_stats" /\ last.graphAt)
            => /\ last.ret.ok
               /\ last.ret.total_nodes = Len(nodes)
               /\ last.ret.total_nodes = SumCounts(last.ret.nodes_by_label)
               /\ last.ret.total_relationships = Len(rels)
               /\ \A l \in Labels :
                    Cardinality({i \in 1..Len(nodes) : nodes[i].label = l}) > 0
                      => <<l, Cardinality({i \in 1..Len(nodes) : nodes[i].label = l})>>
                           \in last.ret.nodes_by_label)
  /\ [][(last'.op = "get_stats" /\ last' # last)
          => (cache' = cache /\ nodes' = nodes /\ rels' = rels)]_vars

\* statistics of a graph with nodes of both labels and a relationship, taken
\* while the cache is unreachable
GetStatsWitness ==
  /\ last.op = "get_stats" /\ last.graphAt /\ last.cacheAt = "down"
  /\ last.ret.ok
  /\ last.ret.total_nodes = 2 /\ last.ret.total_relationships = 1
  /\ Cardinality(last.ret.nodes_by_label) = 2

\* C15: when the entry check finds is not parseable, check returns None as on
\* a miss, and query_existing goes on to the Graph Store and returns its rows
\* with source=neo4j, never an error.
CorruptEntryIsMiss ==
  last.corruptAt
    => /\ last.op = "check" => (~last.ret.ok /\ last.ret.nodes = <<>>)
       /\ IsQuery => /\ last.ret.ok
                     /\ last.ret.error = ""
                     /\ last.ret.source = "neo4j"
                     /\ last.ret.queriedGraph
                     /\ last.ret.nodes \in ExistingRows(nodes, last.name, last.label)

\* the damaged entry hid a node of the graph, which the query returns
CorruptEntryWitness ==
  /\ IsQuery /\ last.corruptAt
  /\ last.ret.source = "neo4j" /\ last.ret.count = 1
  /\ \E k \in DOMAIN cache : ~cache[k].valid

\* ------------------------------------------------------------------------
\* The Warmup Job
\* ------------------------------------------------------------------------
\* the graph's nodes of the text and label the latest call was about
SameNamed == {i \in 1..Len(nodes) : nodes[i].label = last.label /\ nodes[i].name = last.name}

SummaryOf(i) ==
  Summary(nodes[i].id, nodes[i].name, nodes[i].created_at, nodes[i].times_seen)

\* C16: after warmup, check(name, label) for a name that nodes of that label
\* carry returns a list of exactly one of them, one that no other of them
\* follows in the warmup order (label, times_seen descending): of two nodes with
\* different times_seen, the one with the lower.
WarmupKeepsLastNode ==
  (last.op = "check" /\ last.afterWarmup /\ SameNamed # {})
    => /\ last.ret.ok
       /\ Len(last.ret.nodes) = 1
       /\ \E i \in SameNamed :
            /\ last.ret.nodes[1] = SummaryOf(i)
            /\ \A j \in SameNamed : ~SortsBefore(nodes[i], nodes[j])

\* of the Symptom nodes named "db time out" with times_seen 5 and 1, check
\* returns the one with times_seen 1
WarmupOverwriteWitness ==
  /\ last.op = "check" /\ last.afterWarmup
  /\ Cardinality(SameNamed) = 2
  /\ \E i \in SameNamed : nodes[i].times_seen = 5
  /\ Len(last.ret.nodes) = 1
  /\ last.ret.nodes[1].times_seen = 1

\* C20: after warmup, with graph and cache untouched since, query_existing for
\* the name and label of a node of the graph is a cache hit: source=cache, a
\* node of that name, no Graph Store query.
WarmQueryIsHit ==
  (IsQuery /\ last.afterWarmup /\ SameNamed # {})
    => /\ last.ret.ok
       /\ last.ret.source = "cache"
       /\ ~last.ret.queriedGraph
       /\ last.ret.count = 1
       /\ \E i \in SameNamed : last.ret.nodes[1] = SummaryOf(i)

\* the Action node named "db timeout" is served from the cache although the
\* entry of the Symptom of that name lies within the threshold
WarmQueryWitness ==
  /\ IsQuery /\ last.afterWarmup
  /\ last.label = "Action"
  /\ labelGap < DistanceThreshold
  /\ last.ret.source = "cache"
  /\ CacheKey(last.name, "Symptom") \in DOMAIN cache
  /\ \E i \in SameNamed : last.ret.nodes[1].node_id = nodes[i].id

\* ------------------------------------------------------------------------
\* Cache and graph in the long run
\* ------------------------------------------------------------------------
\* the latest query_existing returned nodes exactly when the graph holds a node
\* of that label and name
AgreesWithGraph == (Len(last.ret.nodes) > 0) <=> (SameNamed # {})

\* C19: once the write_graph calls have stopped and query_existing calls go on,
\* from some point on every successful query_existing(N, L) returns a non-empty
\* list exactly when the graph holds a node of label L named N.
EventuallyConsistent ==
  <>[]((IsQuery /\ last.ret.ok) => AgreesWithGraph)

\* ------------------------------------------------------------------------
\* Shape of the graph
\* ------------------------------------------------------------------------
NodeWithId(a) == {i \in 1..Len(nodes) : nodes[i].id = a}

\* C21: every relationship of the Graph Store starts and ends on a node of the
\* store, named by the id the store gave it, and both nodes were created before
\* the relationship was.
RelationshipsHaveEndpoints ==
  \A e \in 1..Len(rels) :
    /\ rels[e].start # Null /\ rels[e].end # Null
    /\ \E i \in NodeWithId(rels[e].start) : nodes[i].created_at < rels[e].created_at
    /\ \E j \in NodeWithId(rels[e].end) : nodes[j].created_at < rels[e].created_at

\* a call whose relationship named an unknown logical id has failed, leaving
\* its node behind, and another call's relationship is in the store
EndpointsWitness ==
  /\ Len(rels) > 0
  /\ \E w \in Writers : /\ writers[w].pc = "failed"
                        /\ writers[w].payload = "bad"
                        /\ NodesOfRun(writers[w].run_id) # {}
                        /\ RelsOfRun(writers[w].run_id) = {}

\* the write_graph calls made so far, by the run id each drew
RunsDrawn == 1..runCount

\* C22: every node carries source "agent" and the run id drawn by the call that
\* created it, whatever source or run_id its payload properties supplied; every
\* relationship carries the run id of its call; a call that returns reports the
\* run id stamped on what it created, and no two calls have the same run id.
StampsOverridePayload ==
  /\ \A i \in 1..Len(nodes) : nodes[i].source = "agent" /\ nodes[i].run_id \in RunsDrawn
  /\ \A e \in 1..Len(rels) : rels[e].run_id \in RunsDrawn
  /\ \A w \in Writers :
       writers[w].pc # "idle"
         => LET me == writers[w]
                p == PayloadNamed(me.payload)
            IN /\ me.run_id \in RunsDrawn
               /\ me.pc = "nodes" => Cardinality(NodesOfRun(me.run_id)) = me.i - 1
               /\ me.pc \in {"rels", "done"}
                    => Cardinality(NodesOfRun(me.run_id)) = Len(p.nodes)
               /\ me.pc = "rels" => Cardinality(RelsOfRun(me.run_id)) = me.i - 1
               /\ me.pc = "done"
                    => Cardinality(RelsOfRun(me.run_id)) = Len(p.relationships)
  /\ \A w1 \in Writers, w2 \in Writers :
       (w1 # w2 /\ writers[w1].pc # "idle" /\ writers[w2].pc # "idle")
         => writers[w1].run_id # writers[w2].run_id
  /\ (last.op = "write_graph" /\ last.prevOp = "write_graph")
       => last.ret.run_id # last.prev.run_id
  /\ (last.op = "write_graph" /\ last.ret.ok)
       => LET p == PayloadNamed(last.payload)
          IN /\ last.ret.run_id \in RunsDrawn
             /\ Cardinality(NodesOfRun(last.ret.run_id)) = Len(p.nodes)
             /\ Cardinality(RelsOfRun(last.ret.run_id)) = Len(p.relationships)

\* the Action node of PayloadFix, submitted with source "manual" and run_id 77,
\* is in the store under the run id its call returned, next to another call's
StampsWitness ==
  /\ last.op = "write_graph" /\ last.ret.ok /\ last.payload = "fix"
  /\ PayloadFix.nodes[2].properties.source = "manual"
  /\ PayloadFix.nodes[2].properties.run_id = 77
  /\ \E i \in NodesOfRun(last.ret.run_id) :
        nodes[i].label = "Action" /\ nodes[i].source = "agent"
  /\ \E w \in Writers : writers[w].pc # "idle" /\ writers[w].run_id # last.ret.run_id
  /\ RelsOfRun(last.ret.run_id) # {}

RelationshipsStayInRun ==
  /\ \A e \in 1..Len(rels) :
       /\ \E i \in NodeWithId(rels[e].start) : nodes[i].run_id = rels[e].run_id
       /\ \E j \in NodeWithId(rels[e].end) : nodes[j].run_id = rels[e].run_id
  /\ \A w \in Writers :
       /\ (writers[w].pc = "nodes" /\ writers[w].i = 1)
            => writers[w].id_mapping = EmptyMapping
       /\ \A a \in DOMAIN writers[w].id_mapping :
            \E i \in NodesOfRun(writers[w].run_id) : nodes[i].id = writers[w].id_mapping[a]
  /\ (last.op = "write_graph" /\ last.payload = "late")
       => (~last.ret.ok /\ RelsOfRun(last.ret.run_id) = {})

\* a call failed on the logical id "n1" while the store held the nodes and the
\* relationship of another call, whose payload carried "n1"
StayInRunWitness ==
  /\ last.op = "write_graph" /\ last.payload = "late" /\ ~last.ret.ok
  /\ NodesOfRun(last.ret.run_id) # {}
  /\ \E w \in Writers : /\ writers[w].payload \in {"fix", "dup"}
                        /\ writers[w].run_id # last.ret.run_id
                        /\ RelsOfRun(writers[w].run_id) # {}

\* index in the payload's node list of the last node with logical id a
LastWithId(graph_json, a) ==
  CHOOSE k \in 1..Len(graph_json.nodes) :
    /\ graph_json.nodes[k].id = a
    /\ \A m \in 1..Len(graph_json.nodes) : graph_json.nodes[m].id = a => m <= k

\* C29: a write_graph whose payload repeats a logical id succeeds, creates and
\* counts a node for every entry of the node list, and joins every relationship
\* to the node created for the last entry carrying the logical id it names; the
\* node of an earlier entry has none of the call's relationships.
DuplicateIdLastWins ==
  (last.op = "write_graph" /\ last.payload = "dup")
    => LET p == PayloadDup
           r == last.ret.run_id
       IN /\ last.ret.ok
          /\ last.ret.nodes_created = Len(p.nodes)
          /\ Cardinality(NodesOfRun(r)) = Len(p.nodes)
          /\ \A k \in 1..Len(p.nodes) : NodeOfRunFor(r, p.nodes[k]) # {}
          /\ Cardinality(RelsOfRun(r)) = Len(p.relationships)
          /\ \A k \in 1..Len(p.relationships) :
               \E e \in RelsOfRun(r) :
                 /\ rels[e].type = p.relationships[k].type
                 /\ \E i \in NodeOfRunFor(r, p.nodes[LastWithId(p, p.relationships[k].start_node_id)]) :
                       nodes[i].id = rels[e].start
                 /\ \E j \in NodeOfRunFor(r, p.nodes[LastWithId(p, p.relationships[k].end_node_id)]) :
                       nodes[j].id = rels[e].end
          /\ \A k \in 1..Len(p.nodes) :
               k # LastWithId(p, p.nodes[k].id)
                 => \A i \in NodeOfRunFor(r, p.nodes[k]), e \in RelsOfRun(r) :
                      rels[e].start # nodes[i].id /\ rels[e].end # nodes[i].id

\* the FIXES relationship of the call ends on the Symptom "db time out", the
\* second node under "n0"; the Symptom "db timeout" stands alone
DuplicateIdWitness ==
  /\ last.op = "write_graph" /\ last.payload = "dup" /\ last.ret.ok
  /\ last.ret.nodes_created = 3
  /\ \E e \in RelsOfRun(last.ret.run_id), j \in NodesOfRun(last.ret.run_id) :
        /\ rels[e].end = nodes[j].id
        /\ nodes[j].label = "Symptom" /\ nodes[j].name = "db time out"

\* ------------------------------------------------------------------------
\* Cache entries
\* ------------------------------------------------------------------------
\* C23: a store leaves, under its exact key, the list it was given and nothing
\* of what was there before, adds no second entry for that key and changes no
\* entry of another key, however near; a check of a text and label that have an
\* entry of their own returns that entry's list.
StoreLastWriteWins ==
  /\ [](last.op = "store"
          => (LastKey \in DOMAIN cache /\ cache[LastKey] = Dumps(last.arg)))
  /\ []((last.op = "check" /\ LastKey \in DOMAIN cache)
          => (last.ret.ok /\ last.ret.nodes = Loads(cache[LastKey]).value))
  /\ [][(last'.op = "store" /\ last' # last)
          => LET key == CacheKey(last'.name, last'.label)
             IN /\ DOMAIN cache' = DOMAIN cache \cup {key}
                /\ \A k \in DOMAIN cache \ {key} : cache'[k] = cache[k]]_vars

\* a second list was stored over a first under one key, while a paraphrase of
\* the same label, within the threshold, keeps a third list
LastWriteWitness ==
  /\ last.op = "store" /\ last.prevOp = "store"
  /\ last.prevArg # last.arg /\ last.arg # <<>> /\ last.prevArg # <<>>
  /\ cache[LastKey] = Dumps(last.arg)
  /\ \E k \in DOMAIN cache :
        /\ k # LastKey
        /\ Dist(k, LastKey, labelGap) <= DistanceThreshold
        /\ cache[k] # cache[LastKey]
        /\ cache[k] # Dumps(last.prevArg)

\* ------------------------------------------------------------------------
\* Frame of query_existing
\* ------------------------------------------------------------------------
\* C26: a query_existing call, whatever name and label it is given, leaves the
\* nodes and relationships of the Graph Store as they were, and changes the
\* cache at most by the entry of the (name, label) it was given.
QueryLeavesGraph ==
  [][(last'.op = "query_existing" /\ last' # last)
       => /\ nodes' = nodes
          /\ rels' = rels
          /\ \A k \in DOMAIN cache' :
               k = CacheKey(last'.name, last'.label)
                 \/ (k \in DOMAIN cache /\ cache'[k] = cache[k])]_vars

\* ------------------------------------------------------------------------
\* The entry point
\* ------------------------------------------------------------------------
\* the data of the latest forward call
LastData == DataNamed(last.arg[1])

\* the name or the label is missing from the data of a query_existing
MissingNameOrLabel ==
  /\ LastData.kind = "object"
  /\ Get(LastData.members, "name", "") = "" \/ Get(LastData.members, "label", "") = ""

\* the latest forward call did what its operation is to do: write_graph
\* created every node and relationship of its lists, query_existing got a node
\* list from the cache or the Graph Store, get_stats read the counts
Completed ==
  CASE last.op = "write_graph" ->
         /\ LastData.kind = "object"
         /\ last.graphAt
         /\ Cardinality(NodesOfRun(last.ret.run_id)) = Len(DataDict(LastData.members).nodes)
         /\ Cardinality(RelsOfRun(last.ret.run_id))
              = Len(DataDict(LastData.members).relationships)
    [] last.op = "query_existing" ->
         /\ LastData.kind = "object"
         /\ ~MissingNameOrLabel
         /\ last.cacheAt = "up"
         /\ \/ last.graphAt
            \/ \E cached \in Check(cache, last.name, last.label, labelGap) : Truthy(cached)
    [] last.op = "get_stats" -> LastData.kind # "unparseable" /\ last.graphAt
    [] OTHER -> FALSE

RefersToNode(summary) ==
  summary.node_id # Null /\ NodeWithId(summary.node_id) # {}

\* C27: every node summary in a readable cache entry, and every node that
\* query_existing returns with source=cache, names a node of the Graph Store by
\* the id the store gave it.
CachedNodesExist ==
  /\ \A k \in DOMAIN cache :
       cache[k].valid
         => \A j \in 1..Len(Loads(cache[k]).value) : RefersToNode(Loads(cache[k]).value[j])
  /\ (IsQuery /\ last.ret.ok /\ last.ret.source = "cache")
       => \A j \in 1..Len(last.ret.nodes) : RefersToNode(last.ret.nodes[j])

\* ------------------------------------------------------------------------
\* The interactive CLI
\* ------------------------------------------------------------------------
\* C30: for the step at hand, write_knowledge_graph is called only after the
\* user chose Approve at the graph-approval prompt of a final-answer step;
\* Modify, Retry and Cancel never call it; and a step of the
\* existing_node_review phase, whatever the user answers to the review, gets
\* neither the graph-approval prompt nor a write.
WriteOnlyOnApprove ==
  /\ cli.wrote => (cli.prompted /\ cli.choice = "approve")
  /\ cli.choice \in {"modify", "retry", "cancel"} => ~cli.wrote
  /\ cli.phase = "review" => (~cli.prompted /\ ~cli.wrote)

====
